---- MODULE Spec2Model ----
(***************************************************************************)
(* Verification model of the interval tree of intervaltree/intervaltree.py *)
(* (classes IntervalTree and Node) over the Interval value of              *)
(* intervaltree/interval.py.                                               *)
(*                                                                         *)
(* Node objects live in a heap (a sequence of node records addressed by    *)
(* their index, 0 standing for None) because the code mutates nodes in     *)
(* place: every node operation takes the heap and returns the heap it      *)
(* leaves behind, together with its return value and the exception it      *)
(* raised, if any.  After each public operation the heap is compacted to   *)
(* the nodes reachable from top_node, numbered in preorder.                *)
(***************************************************************************)
EXTENDS Integers, Sequences, FiniteSets, TLC

\* ------------------------------------------------------------------ bounds
\* Coordinates are 0..MaxCoord.
MaxCoord == 3
\* Ranges ending at or before MaxDataCoord also occur with a second payload.
MaxDataCoord == 1
\* No add is attempted once the tree holds MaxSize intervals.
MaxSize == 3
\* Largest iterable handed to the constructor.
MaxBulk == 2
\* Depth of nested from_intervals calls at which the interpreter gives up
\* (the recursion limit of the interpreter, scaled down).
RecursionLimit == 8
\* Coordinates of the runs with null intervals are 0..MaxNullCoord.
MaxNullCoord == 2
\* In those runs no add is attempted on a tree of MaxNullNodes nodes.
MaxNullNodes == 3
\* Largest iterable and largest tree of the runs over DeepUniverse.
MaxDeepBulk == 6
MaxDeepSize == 7
\* Largest iterable and largest tree of the runs of round trips.
MaxTripBulk == 3
MaxTripSize == 4
\* In the runs with split_overlaps no add is attempted on a tree of
\* MaxSplitSize intervals.
MaxSplitSize == 2

Coords == 0..MaxCoord

\* ------------------------------------------------------------- Interval
Interval(begin, end, data) == [begin |-> begin, end |-> end, data |-> data]

\* Valid intervals handed to the tree.
Universe ==
    {iv \in [begin : Coords, end : Coords, data : {0, 1}] :
        iv.begin < iv.end /\ (iv.data = 0 \/ iv.end <= MaxDataCoord)}

\* Interval.is_null
is_null(iv) == iv.begin >= iv.end

\* The intervals of the runs that also hand null intervals to the tree:
\* every pair of coordinates in 0..MaxNullCoord, in order or not.
NullCoords == 0..MaxNullCoord
NullMix == [begin : NullCoords, end : NullCoords, data : {0}]

\* The intervals of the runs that build a tree of six intervals and more.
DeepUniverse ==
    {Interval(0, 3, 0), Interval(1, 2, 0), Interval(2, 3, 0), Interval(2, 5, 0),
     Interval(3, 4, 0), Interval(4, 5, 0), Interval(5, 6, 0)}

\* The intervals of the runs that only build trees.
BuildUniverse ==
    {Interval(0, 3, 0), Interval(1, 5, 0), Interval(2, 3, 0), Interval(3, 4, 0),
     Interval(3, 6, 0), Interval(4, 6, 0), Interval(5, 6, 0)}

contains_point(iv, p) == iv.begin <= p /\ p < iv.end

\* Interval.overlaps(begin, end) with end given.
overlaps_range(iv, begin, end) ==
    \/ (begin <= iv.begin /\ iv.begin < end)
    \/ (begin < iv.end /\ iv.end <= end)
    \/ (iv.begin <= begin /\ begin < iv.end)
    \/ (iv.begin < end /\ end <= iv.end)

\* Interval.overlaps(other) with other an Interval.
overlaps(iv, other) == overlaps_range(iv, other.begin, other.end)

\* Interval.__lt__(other) with other an Interval: the second conjunct,
\* self.end <= other, compares a number with a tuple, which the interpreter
\* this code runs on (xrange, integer '/', iteritems) orders number first.
NumberLeTuple == TRUE
NumberGtTuple == FALSE
Interval__lt__(iv, other) == ~overlaps(iv, other) /\ NumberLeTuple

\* -------------------------------------------------- set iteration order
\* The order in which a set is iterated depends on hashes and history; an
\* operation runs under one of these orders, given as key weights.
Orders == {<<100, 10, 1>>, <<-100, -10, -1>>}
OrderKey(o, iv) == o[1] * iv.begin + o[2] * iv.end + o[3] * iv.data

RECURSIVE Iter(_, _)
Iter(S, o) ==
    IF S = {} THEN <<>>
    ELSE LET m == CHOOSE x \in S : \A y \in S : OrderKey(o, x) <= OrderKey(o, y)
         IN <<m>> \o Iter(S \ {m}, o)

SeqToSet(s) == {s[i] : i \in 1..Len(s)}

\* ------------------------------------------------------------- sorted()
\* list.sort for fewer than 64 elements: count_run finds the leading run
\* (reversed when strictly descending), binarysort inserts the rest.
RECURSIVE RunDesc(_, _)
RunDesc(s, n) ==
    IF n < Len(s) /\ Interval__lt__(s[n + 1], s[n]) THEN RunDesc(s, n + 1) ELSE n

RECURSIVE RunAsc(_, _)
RunAsc(s, n) ==
    IF n < Len(s) /\ ~Interval__lt__(s[n + 1], s[n]) THEN RunAsc(s, n + 1) ELSE n

Reverse(s) == [i \in 1..Len(s) |-> s[Len(s) + 1 - i]]

RECURSIVE BinSearch(_, _, _, _)
\* first index l in lo..hi such that the pivot goes before s[l] (0-based
\* half-open search of binarysort, indices shifted by one)
BinSearch(s, pivot, l, r) ==
    IF l >= r THEN l
    ELSE LET p == l + ((r - l) \div 2)
         IN IF Interval__lt__(pivot, s[p])
            THEN BinSearch(s, pivot, l, p)
            ELSE BinSearch(s, pivot, p + 1, r)

RECURSIVE BinarySort(_, _)
\* s[1..start-1] is the sorted prefix; insert s[start], s[start+1], ...
BinarySort(s, start) ==
    IF start > Len(s) THEN s
    ELSE LET pivot == s[start]
             l == BinSearch(s, pivot, 1, start)
             t == [i \in 1..Len(s) |->
                     IF i < l THEN s[i]
                     ELSE IF i = l THEN pivot
                     ELSE IF i <= start THEN s[i - 1]
                     ELSE s[i]]
         IN BinarySort(t, start + 1)

Sorted(s) ==
    IF Len(s) < 2 THEN s
    ELSE LET desc == Interval__lt__(s[2], s[1])
             n == IF desc THEN RunDesc(s, 2) ELSE RunAsc(s, 2)
             run == IF desc
                    THEN Reverse(SubSeq(s, 1, n)) \o SubSeq(s, n + 1, Len(s))
                    ELSE s
         IN BinarySort(run, n + 1)

\* ----------------------------------------------------------------- Node
\* A node object; left_node and right_node are heap indices, 0 for None.
None == 0
NoExc == "None"

Node(x_center, s_center, left_node, right_node, balance) ==
    [x_center |-> x_center, s_center |-> s_center, left_node |-> left_node,
     right_node |-> right_node, balance |-> balance]

\* Node.__getitem__ / Node.__setitem__: index true is the right child.
NodeGet(h, n, index) == IF index THEN h[n].right_node ELSE h[n].left_node
NodeSet(h, n, key, value) ==
    IF key THEN [h EXCEPT ![n].right_node = value]
    ELSE [h EXCEPT ![n].left_node = value]

\* What a node operation hands back: the heap, the returned reference and
\* the exception raised ("None" when it returned normally).
Ret(h, ret) == [h |-> h, ret |-> ret, exc |-> NoExc]
Raise(h, exc) == [h |-> h, ret |-> None, exc |-> exc]

center_hit(h, n, interval) == contains_point(interval, h[n].x_center)

hit_branch(h, n, interval) == interval.begin > h[n].x_center

HasChild(h, n) == h[n].left_node # None \/ h[n].right_node # None

BalanceOf(h, n) ==
    LET b0 == (IF h[n].right_node # None THEN 1 ELSE 0)
              - (IF h[n].left_node # None THEN 1 ELSE 0)
    IN IF b0 < 0 THEN b0 - (IF HasChild(h, h[n].left_node) THEN 1 ELSE 0)
       ELSE IF b0 > 0 THEN b0 + (IF HasChild(h, h[n].right_node) THEN 1 ELSE 0)
       ELSE b0

refresh_balance(h, n) == [h EXCEPT ![n].balance = BalanceOf(h, n)]

\* Node.__init__: the new object is appended to the heap; rotate() on a
\* node without children only refreshes its balance.
NewNode(h, x_center, s_center) ==
    Ret(h \o <<Node(x_center, s_center, None, None, 0)>>, Len(h) + 1)

from_interval(h, interval) == NewNode(h, interval.begin, {interval})

\* The literal 1 of pop_greatest_child (max_iv_len <= 1, max_iv.end - 1).
One == 1

RetDone(h, ret, done) == [h |-> h, ret |-> ret, exc |-> NoExc, done |-> done]
WithDone(r, done) == [h |-> r.h, ret |-> r.ret, exc |-> r.exc, done |-> done]
RetPop(h, heir, ret) == [h |-> h, ret |-> ret, exc |-> NoExc, heir |-> heir]
RaisePop(h, exc) == [h |-> h, ret |-> None, exc |-> exc, heir |-> None]

\* max(s_center, key=attrgetter('end')): the first maximal element met.
FirstMaxEnd(seq) ==
    seq[CHOOSE i \in 1..Len(seq) :
            /\ \A j \in 1..Len(seq) : seq[j].end <= seq[i].end
            /\ \A j \in 1..(i - 1) : seq[j].end < seq[i].end]

\* Calls between Node methods go through Invoke (defined after the methods).
\* A value a method computes and then uses is handed on as the parameter
\* of a local operator, in the order the statements run.
RECURSIVE Invoke(_, _)

\* Node.rotate
rotate(h, n, o) ==
    LET Refreshed(h1) ==
            LET bal == h1[n].balance
                my_heavy == bal > 0
                child_heavy == h1[NodeGet(h1, n, my_heavy)].balance > 0
            IN IF bal < 2 /\ bal > -2 THEN Ret(h1, n)
               ELSE IF my_heavy = child_heavy
               THEN Invoke("srotate", <<h1, n, o>>)
               ELSE Invoke("drotate", <<h1, n, o>>)
    IN Refreshed(refresh_balance(h, n))

\* Node.srotate, up to the repair loop
srotate(h, n, o) ==
    LET heavy == h[n].balance > 0
        light == ~heavy
        save == NodeGet(h, n, heavy)
        Repair(h5) ==
            Invoke("srotate_repair", <<h5, save, light, Iter(h5[n].s_center, o), o>>)
        Rotated(r) ==
            IF r.exc # NoExc THEN r
            ELSE Repair(refresh_balance(NodeSet(r.h, save, light, r.ret), save))
        Swapped(h1) ==
            Rotated(Invoke("rotate", <<refresh_balance(NodeSet(h1, save, light, n), n),
                                       n, o>>))
    IN IF save = None THEN Raise(h, "TypeError")
       ELSE Swapped(NodeSet(h, n, heavy, NodeGet(h, save, light)))

\* The repair loop of Node.srotate: for iv in set(self.s_center)
srotate_repair(h, save, light, ivs, o) ==
    IF ivs = <<>> THEN Ret(h, save)
    ELSE LET iv == Head(ivs)
             sl == NodeGet(h, save, light)
             Added(a) ==
                 IF a.exc # NoExc THEN a
                 ELSE Invoke("srotate_repair",
                             <<refresh_balance(a.h, a.ret), a.ret, light, Tail(ivs), o>>)
             Linked(r, h1) ==
                 Added(Invoke("Node_add",
                              <<IF r.ret # None THEN refresh_balance(h1, r.ret) ELSE h1,
                                save, iv, o>>))
             Removed(r) ==
                 IF r.exc # NoExc THEN Raise(r.h, r.exc)
                 ELSE Linked(r, NodeSet(r.h, save, light, r.ret))
         IN IF ~center_hit(h, save, iv)
            THEN Invoke("srotate_repair", <<h, save, light, Tail(ivs), o>>)
            ELSE IF sl = None THEN Raise(h, "AttributeError")
            ELSE Removed(Invoke("remove_interval_helper", <<h, sl, iv, TRUE, o>>))

\* Node.drotate
drotate(h, n, o) ==
    LET Inner(r) ==
            IF r.exc # NoExc THEN r
            ELSE Invoke("srotate",
                        <<refresh_balance(NodeSet(r.h, n, r.h[n].balance > 0, r.ret), n),
                          n, o>>)
    IN Inner(Invoke("srotate", <<h, NodeGet(h, n, h[n].balance > 0), o>>))

\* Node.add
Node_add(h, n, interval, o) ==
    IF center_hit(h, n, interval)
    THEN Ret([h EXCEPT ![n].s_center = @ \cup {interval}], n)
    ELSE LET direction == hit_branch(h, n, interval)
             c == NodeGet(h, n, direction)
             Created(f) ==
                 Ret(refresh_balance(NodeSet(f.h, n, direction, f.ret), n), n)
             Added(r) ==
                 IF r.exc # NoExc THEN r
                 ELSE Invoke("rotate", <<NodeSet(r.h, n, direction, r.ret), n, o>>)
         IN IF c = None THEN Created(from_interval(h, interval))
            ELSE Added(Invoke("Node_add", <<h, c, interval, o>>))

\* Node.remove_interval_helper; done is the flag the callees append to.
remove_interval_helper(h, n, interval, shouldRaiseError, o) ==
    IF center_hit(h, n, interval)
    THEN IF ~shouldRaiseError /\ interval \notin h[n].s_center
         THEN RetDone(h, n, TRUE)
         ELSE IF interval \notin h[n].s_center
         THEN WithDone(Raise(h, "KeyError"), FALSE)
         ELSE IF h[n].s_center # {interval}
         THEN RetDone([h EXCEPT ![n].s_center = @ \ {interval}], n, TRUE)
         ELSE WithDone(Invoke("prune",
                              <<[h EXCEPT ![n].s_center = @ \ {interval}], n, o>>),
                       FALSE)
    ELSE LET direction == hit_branch(h, n, interval)
             c == NodeGet(h, n, direction)
             Linked(r, h1) ==
                 IF ~r.done THEN WithDone(Invoke("rotate", <<h1, n, o>>), FALSE)
                 ELSE RetDone(h1, n, TRUE)
             Removed(r) ==
                 IF r.exc # NoExc THEN r
                 ELSE Linked(r, NodeSet(r.h, n, direction, r.ret))
         IN IF c = None
            THEN IF shouldRaiseError THEN WithDone(Raise(h, "ValueError"), FALSE)
                 ELSE RetDone(h, n, TRUE)
            ELSE Removed(Invoke("remove_interval_helper",
                                <<h, c, interval, shouldRaiseError, o>>))

\* Node.remove / Node.discard
Node_remove(h, n, interval, o) == remove_interval_helper(h, n, interval, TRUE, o)
Node_discard(h, n, interval, o) == remove_interval_helper(h, n, interval, FALSE, o)

\* Node.prune
prune(h, n, o) ==
    LET Linked(heir, h1) ==
            Invoke("rotate",
                   <<refresh_balance([h1 EXCEPT ![heir].left_node = h1[n].left_node,
                                                ![heir].right_node = h1[n].right_node],
                                     heir),
                     heir, o>>)
        Popped(p) ==
            IF p.exc # NoExc THEN Raise(p.h, p.exc)
            ELSE Linked(p.heir, NodeSet(p.h, n, FALSE, p.ret))
    IN IF h[n].left_node = None \/ h[n].right_node = None
       THEN Ret(h, NodeGet(h, n, h[n].left_node = None))
       ELSE Popped(Invoke("pop_greatest_child", <<h, h[n].left_node, o>>))

\* Node.pop_greatest_child
pop_greatest_child(h, n, o) ==
    LET ivs == h[n].s_center
        Emptied(child, h2) ==
            IF HasChild(h2, child) THEN RaisePop(h2, "AssertionError")
            ELSE IF h2[n].s_center # {} THEN RetPop(h2, child, n)
            ELSE RetPop(h2, child, h2[n].left_node)
        Centered(child, h1) ==
            Emptied(child, [h1 EXCEPT ![n].s_center = ivs \ h1[child].s_center])
        Built(f, child_x_center) ==
            IF f.exc # NoExc THEN RaisePop(f.h, f.exc)
            ELSE IF f.ret = None THEN RaisePop(f.h, "AttributeError")
            ELSE Centered(f.ret, [f.h EXCEPT ![f.ret].x_center = child_x_center])
        Leaf(order, max_iv) ==
            LET max_iv_len == max_iv.end - max_iv.begin
                child_x_center == IF max_iv_len <= One THEN max_iv.begin
                                  ELSE max_iv.end - One
                Hit(iv) == contains_point(iv, child_x_center)
            IN Built(Invoke("from_intervals", <<h, SelectSeq(order, Hit), o, 1>>),
                     child_x_center)
        Pruned(q, heir) ==
            IF q.exc # NoExc THEN RaisePop(q.h, q.exc)
            ELSE RetPop(q.h, heir, q.ret)
        Moved(m, new_self, heir) ==
            IF m.exc # NoExc THEN RaisePop(m.h, m.exc)
            ELSE IF m.h[new_self].s_center # {} THEN RetPop(m.h, heir, new_self)
            ELSE Pruned(Invoke("prune", <<m.h, new_self, o>>), heir)
        Rotated(r, heir) ==
            IF r.exc # NoExc THEN RaisePop(r.h, r.exc)
            ELSE Moved(Invoke("pop_move",
                              <<r.h, r.ret, heir, Iter(r.h[r.ret].s_center, o), o>>),
                       r.ret, heir)
        Popped(p) ==
            IF p.exc # NoExc THEN p
            ELSE Rotated(Invoke("rotate",
                                <<refresh_balance(NodeSet(p.h, n, TRUE, p.ret), n),
                                  n, o>>),
                         p.heir)
    IN IF h[n].right_node = None
       THEN IF ivs = {} THEN RaisePop(h, "ValueError")
            ELSE Leaf(Iter(ivs, o), FirstMaxEnd(Iter(ivs, o)))
       ELSE Popped(Invoke("pop_greatest_child", <<h, h[n].right_node, o>>))

\* The loop of pop_greatest_child that moves overlaps into greatest_child
pop_move(h, new_self, greatest_child, ivs, o) ==
    IF ivs = <<>> THEN Ret(h, new_self)
    ELSE LET iv == Head(ivs)
             Added(a) ==
                 IF a.exc # NoExc THEN a
                 ELSE Invoke("pop_move", <<a.h, new_self, greatest_child, Tail(ivs), o>>)
         IN IF ~contains_point(iv, h[greatest_child].x_center)
            THEN Invoke("pop_move", <<h, new_self, greatest_child, Tail(ivs), o>>)
            ELSE Added(Invoke("Node_add",
                              <<[h EXCEPT ![new_self].s_center = @ \ {iv}],
                                greatest_child, iv, o>>))

\* Node.from_intervals; depth counts the nested calls
from_intervals(h, intervals, o, depth) ==
    LET Made(node) ==
            Invoke("init_from_sorted", <<node.h, node.ret, Sorted(intervals), o, depth>>)
    IN IF intervals = <<>> THEN Ret(h, None)
       ELSE IF depth > RecursionLimit THEN Raise(h, "RuntimeError")
       ELSE Made(NewNode(h, None, {}))

\* Node.init_from_sorted with ">=" in the test for s_right: the interval
\* whose begin is x_center is sent to the right subtree.
init_from_sorted_pivot_right(h, n, intervals, o, depth) ==
    IF intervals = <<>> THEN Ret(h, None)
    ELSE LET center_iv == intervals[(Len(intervals) \div 2) + 1]
             x_center == center_iv.begin
             GoesLeft(k) == k.end <= x_center
             GoesRight(k) == ~(k.end <= x_center) /\ k.begin >= x_center
             s_left == SelectSeq(intervals, GoesLeft)
             s_right == SelectSeq(intervals, GoesRight)
             s_center == {k \in SeqToSet(intervals) : ~GoesLeft(k) /\ ~GoesRight(k)}
             Right(r) ==
                 IF r.exc # NoExc THEN r
                 ELSE Invoke("rotate", <<NodeSet(r.h, n, TRUE, r.ret), n, o>>)
             Left(l) ==
                 IF l.exc # NoExc THEN l
                 ELSE Right(Invoke("from_intervals",
                                   <<NodeSet(l.h, n, FALSE, l.ret), s_right, o, depth + 1>>))
         IN Left(Invoke("from_intervals",
                        <<[h EXCEPT ![n].x_center = x_center, ![n].s_center = s_center],
                          s_left, o, depth + 1>>))

\* Node.init_from_sorted
init_from_sorted(h, n, intervals, o, depth) ==
    IF intervals = <<>> THEN Ret(h, None)
    ELSE LET center_iv == intervals[(Len(intervals) \div 2) + 1]
             x_center == center_iv.begin
             GoesLeft(k) == k.end <= x_center
             GoesRight(k) == ~(k.end <= x_center) /\ k.begin > x_center
             s_left == SelectSeq(intervals, GoesLeft)
             s_right == SelectSeq(intervals, GoesRight)
             s_center == {k \in SeqToSet(intervals) : ~GoesLeft(k) /\ ~GoesRight(k)}
             Right(r) ==
                 IF r.exc # NoExc THEN r
                 ELSE Invoke("rotate", <<NodeSet(r.h, n, TRUE, r.ret), n, o>>)
             Left(l) ==
                 IF l.exc # NoExc THEN l
                 ELSE Right(Invoke("from_intervals",
                                   <<NodeSet(l.h, n, FALSE, l.ret), s_right, o, depth + 1>>))
         IN Left(Invoke("from_intervals",
                        <<[h EXCEPT ![n].x_center = x_center, ![n].s_center = s_center],
                          s_left, o, depth + 1>>))

\* A call of one Node method from another: methods are looked up by name.
Invoke(method, a) ==
    CASE method = "rotate" -> rotate(a[1], a[2], a[3])
      [] method = "srotate" -> srotate(a[1], a[2], a[3])
      [] method = "srotate_repair" -> srotate_repair(a[1], a[2], a[3], a[4], a[5])
      [] method = "drotate" -> drotate(a[1], a[2], a[3])
      [] method = "Node_add" -> Node_add(a[1], a[2], a[3], a[4])
      [] method = "remove_interval_helper" ->
             remove_interval_helper(a[1], a[2], a[3], a[4], a[5])
      [] method = "prune" -> prune(a[1], a[2], a[3])
      [] method = "pop_greatest_child" -> pop_greatest_child(a[1], a[2], a[3])
      [] method = "pop_move" -> pop_move(a[1], a[2], a[3], a[4], a[5])
      [] method = "from_intervals" -> from_intervals(a[1], a[2], a[3], a[4])
      [] method = "init_from_sorted" ->
             init_from_sorted(a[1], a[2], a[3], a[4], a[5])

\* Node.search_point
RECURSIVE search_point(_, _, _)
search_point(h, n, point) ==
    LET here == {k \in h[n].s_center : k.begin <= point /\ point < k.end}
    IN IF point < h[n].x_center /\ h[n].left_node # None
       THEN here \cup search_point(h, h[n].left_node, point)
       ELSE IF point > h[n].x_center /\ h[n].right_node # None
       THEN here \cup search_point(h, h[n].right_node, point)
       ELSE here

\* Node.search_overlap
search_overlap(h, n, point_list) ==
    UNION {search_point(h, n, j) : j \in point_list}

\* Node.all_children
RECURSIVE all_children(_, _)
all_children(h, n) ==
    h[n].s_center
    \cup (IF h[n].left_node # None THEN all_children(h, h[n].left_node) ELSE {})
    \cup (IF h[n].right_node # None THEN all_children(h, h[n].right_node) ELSE {})

\* --------------------------------------------------------- IntervalTree
VARIABLES
    nodes,            \* the Node objects reachable from top_node
    top_node,         \* IntervalTree.top_node: 1, or None
    all_intervals,    \* IntervalTree.all_intervals
    boundary_table,   \* IntervalTree.boundary_table
    last              \* the last public call: its name, its argument, the
                      \* exception it raised, all_intervals when it was made

vars == <<nodes, top_node, all_intervals, boundary_table, last>>

Call(op, arg, exc) == [op |-> op, arg |-> arg, exc |-> exc, pre |-> all_intervals]

\* The nodes reachable from root, renumbered in preorder.
RECURSIVE Preorder(_, _)
Preorder(h, n) ==
    IF n = None THEN <<>>
    ELSE <<n>> \o Preorder(h, h[n].left_node) \o Preorder(h, h[n].right_node)

Compact(h, root) ==
    LET pre == Preorder(h, root)
        Ren(m) == IF m = None THEN None ELSE CHOOSE i \in 1..Len(pre) : pre[i] = m
    IN [i \in 1..Len(pre) |->
           [h[pre[i]] EXCEPT !.left_node = Ren(@), !.right_node = Ren(@)]]

Root(root) == IF root = None THEN None ELSE 1

\* IntervalTree._add_boundaries
BumpBoundary(bt, k) ==
    IF k \in DOMAIN bt THEN [bt EXCEPT ![k] = @ + 1] ELSE bt @@ (k :> 1)
add_boundaries(bt, interval) ==
    BumpBoundary(BumpBoundary(bt, interval.begin), interval.end)

\* IntervalTree._remove_boundaries; a missing key is a KeyError
DropBoundary(r, k) ==
    IF r.exc # NoExc THEN r
    ELSE IF k \notin DOMAIN r.bt THEN [bt |-> r.bt, exc |-> "KeyError"]
    ELSE IF r.bt[k] = 1
    THEN [bt |-> [j \in DOMAIN r.bt \ {k} |-> r.bt[j]], exc |-> NoExc]
    ELSE [bt |-> [r.bt EXCEPT ![k] = @ - 1], exc |-> NoExc]
remove_boundaries(bt, interval) ==
    DropBoundary(DropBoundary([bt |-> bt, exc |-> NoExc], interval.begin),
                 interval.end)

RECURSIVE AddAllBoundaries(_, _)
AddAllBoundaries(bt, ivs) ==
    IF ivs = <<>> THEN bt
    ELSE AddAllBoundaries(add_boundaries(bt, Head(ivs)), Tail(ivs))

EmptyTable == [k \in {} |-> 0]

\* After an exception escaped from the node engine the tree is left as the
\* engine left it and nothing more is done with it.  The ValueError of
\* remove() for a non-member and the IndexError of tree[index] = value for
\* an index that is no slice are raised before anything is touched; the
\* program goes on.
Halted ==
    /\ last.exc # NoExc
    /\ ~(last.op = "remove" /\ last.exc = "ValueError"
         /\ last.arg \cap all_intervals = {})
    /\ ~(last.op = "setitem" /\ last.exc = "IndexError")

\* IntervalTree.__init__(intervals)
Construct(intervals, o) ==
    LET Built(f) ==
            IF f.exc # NoExc
            THEN /\ nodes = <<>>
                 /\ top_node = None
                 /\ all_intervals = {}
                 /\ boundary_table = EmptyTable
                 /\ last = [Call("init", intervals, f.exc) EXCEPT !.pre = {}]
            ELSE /\ nodes = Compact(f.h, f.ret)
                 /\ top_node = Root(f.ret)
                 /\ all_intervals = intervals
                 /\ boundary_table = AddAllBoundaries(EmptyTable, Iter(intervals, o))
                 /\ last = [Call("init", intervals, NoExc) EXCEPT !.pre = {}]
    IN Built(from_intervals(<<>>, Iter(intervals, o), o, 1))

BulkInputs(U, max) == {S \in SUBSET U : Cardinality(S) <= max}

Init == \E S \in BulkInputs(Universe, MaxBulk), o \in Orders : Construct(S, o)

\* add() without its membership test.
TreeAdd_unchecked(interval, o, op) ==
    LET Added(r) ==
            /\ all_intervals' = all_intervals \cup {interval}
            /\ last' = Call(op, {interval}, r.exc)
            /\ IF r.exc # NoExc
               THEN /\ nodes' = Compact(r.h, top_node)
                    /\ UNCHANGED <<top_node, boundary_table>>
               ELSE /\ nodes' = Compact(r.h, r.ret)
                    /\ top_node' = Root(r.ret)
                    /\ boundary_table' = add_boundaries(boundary_table, interval)
    IN Added(IF top_node = None THEN from_interval(nodes, interval)
             ELSE Node_add(nodes, top_node, interval, o))

\* IntervalTree.add(interval)
TreeAdd(interval, o, op) ==
    IF interval \in all_intervals
    THEN /\ UNCHANGED <<nodes, top_node, all_intervals, boundary_table>>
         /\ last' = Call(op, {interval}, NoExc)
    ELSE LET Added(r) ==
                 /\ all_intervals' = all_intervals \cup {interval}
                 /\ last' = Call(op, {interval}, r.exc)
                 /\ IF r.exc # NoExc
                    THEN /\ nodes' = Compact(r.h, top_node)
                         /\ UNCHANGED <<top_node, boundary_table>>
                    ELSE /\ nodes' = Compact(r.h, r.ret)
                         /\ top_node' = Root(r.ret)
                         /\ boundary_table' = add_boundaries(boundary_table, interval)
         IN Added(IF top_node = None THEN from_interval(nodes, interval)
                  ELSE Node_add(nodes, top_node, interval, o))

add(interval, o) ==
    /\ ~Halted
    /\ TreeAdd(interval, o, "add")

\* IntervalTree.addi(begin, end, data)
addi(begin, end, data, o) ==
    /\ ~Halted
    /\ TreeAdd(Interval(begin, end, data), o, "addi")

\* IntervalTree.__setitem__(index, value): tree[start:stop] = value.  An
\* index is a slice, or (slice = FALSE) a single number held in start.
Slice(start, stop) == [slice |-> TRUE, start |-> start, stop |-> stop]
Index(i) == [slice |-> FALSE, start |-> i, stop |-> i]
setitem(index, value, o) ==
    /\ ~Halted
    /\ IF ~index.slice
       THEN /\ UNCHANGED <<nodes, top_node, all_intervals, boundary_table>>
            /\ last' = Call("setitem", {}, "IndexError")
       ELSE TreeAdd(Interval(index.start, index.stop, value), o, "setitem")

\* remove() without its membership test.
remove_unchecked(interval, o) ==
    /\ ~Halted
    /\ IF top_node = None
       THEN /\ UNCHANGED <<nodes, top_node, all_intervals, boundary_table>>
            /\ last' = Call("remove", {interval}, "AttributeError")
       ELSE LET Removed(r, b) ==
                    IF r.exc # NoExc
                    THEN /\ nodes' = Compact(r.h, top_node)
                         /\ UNCHANGED <<top_node, all_intervals, boundary_table>>
                         /\ last' = Call("remove", {interval}, r.exc)
                    ELSE /\ nodes' = Compact(r.h, r.ret)
                         /\ top_node' = Root(r.ret)
                         /\ all_intervals' = all_intervals \ {interval}
                         /\ boundary_table' = b.bt
                         /\ last' = Call("remove", {interval}, b.exc)
            IN Removed(Node_remove(nodes, top_node, interval, o),
                       remove_boundaries(boundary_table, interval))

\* IntervalTree.remove(interval)
remove(interval, o) ==
    /\ ~Halted
    /\ IF interval \notin all_intervals
       THEN /\ UNCHANGED <<nodes, top_node, all_intervals, boundary_table>>
            /\ last' = Call("remove", {interval}, "ValueError")
       ELSE IF top_node = None
       THEN /\ UNCHANGED <<nodes, top_node, all_intervals, boundary_table>>
            /\ last' = Call("remove", {interval}, "AttributeError")
       ELSE LET Removed(r, b) ==
                    IF r.exc # NoExc
                    THEN /\ nodes' = Compact(r.h, top_node)
                         /\ UNCHANGED <<top_node, all_intervals, boundary_table>>
                         /\ last' = Call("remove", {interval}, r.exc)
                    ELSE /\ nodes' = Compact(r.h, r.ret)
                         /\ top_node' = Root(r.ret)
                         /\ all_intervals' = all_intervals \ {interval}
                         /\ boundary_table' = b.bt
                         /\ last' = Call("remove", {interval}, b.exc)
            IN Removed(Node_remove(nodes, top_node, interval, o),
                       remove_boundaries(boundary_table, interval))

\* IntervalTree.discard(interval)
discard(interval, o) ==
    /\ ~Halted
    /\ IF interval \notin all_intervals
       THEN /\ UNCHANGED <<nodes, top_node, all_intervals, boundary_table>>
            /\ last' = Call("discard", {interval}, NoExc)
       ELSE IF top_node = None
       THEN /\ all_intervals' = all_intervals \ {interval}
            /\ UNCHANGED <<nodes, top_node, boundary_table>>
            /\ last' = Call("discard", {interval}, "AttributeError")
       ELSE LET Discarded(r, b) ==
                    /\ all_intervals' = all_intervals \ {interval}
                    /\ IF r.exc # NoExc
                       THEN /\ nodes' = Compact(r.h, top_node)
                            /\ UNCHANGED <<top_node, boundary_table>>
                            /\ last' = Call("discard", {interval}, r.exc)
                       ELSE /\ nodes' = Compact(r.h, r.ret)
                            /\ top_node' = Root(r.ret)
                            /\ boundary_table' = b.bt
                            /\ last' = Call("discard", {interval}, b.exc)
            IN Discarded(Node_discard(nodes, top_node, interval, o),
                         remove_boundaries(boundary_table, interval))

\* No add is attempted on a tree that already holds cap intervals.
Room(interval, cap) ==
    interval \in all_intervals \/ Cardinality(all_intervals) < cap

Next ==
    \/ \E interval \in Universe, o \in Orders :
          Room(interval, MaxSize) /\ add(interval, o)
    \/ \E interval \in Universe, o \in Orders : remove(interval, o)
    \/ \E interval \in Universe, o \in Orders : discard(interval, o)

Spec == Init /\ [][Next]_vars

\* ------------------------------------------- runs with null intervals
InitNull == \E S \in BulkInputs(NullMix, MaxBulk), o \in Orders : Construct(S, o)

Slices == {Slice(iv.begin, iv.end) : iv \in NullMix}

\* A discarded null interval leaves its node behind, so the nodes are
\* counted as well as the members.
NullRoom(interval) == Room(interval, MaxSize) /\ Len(nodes) < MaxNullNodes

NextNull ==
    \/ \E interval \in NullMix, o \in Orders :
          NullRoom(interval) /\ add(interval, o)
    \/ \E interval \in NullMix, o \in Orders :
          /\ NullRoom(interval)
          /\ addi(interval.begin, interval.end, interval.data, o)
    \/ \E index \in Slices \cup {Index(0)}, o \in Orders :
          /\ NullRoom(Interval(index.start, index.stop, 0))
          /\ setitem(index, 0, o)
    \/ \E interval \in NullMix, o \in Orders : remove(interval, o)
    \/ \E interval \in NullMix, o \in Orders : discard(interval, o)

SpecNull == InitNull /\ [][NextNull]_vars

\* --------------------------------------------- runs over DeepUniverse
InitDeep ==
    \E S \in BulkInputs(DeepUniverse, MaxDeepBulk), o \in Orders : Construct(S, o)

NextDeep ==
    \/ \E interval \in DeepUniverse, o \in Orders :
          Room(interval, MaxDeepSize) /\ add(interval, o)
    \/ \E interval \in DeepUniverse, o \in Orders : remove(interval, o)
    \/ \E interval \in DeepUniverse, o \in Orders : discard(interval, o)

SpecDeep == InitDeep /\ [][NextDeep]_vars

\* -------------------------------------------------------------- queries
\* What a query hands back: the exception raised and the set returned.
Result(ret) == [exc |-> NoExc, ret |-> ret]
Fail(exc) == [exc |-> exc, ret |-> {}]

\* IntervalTree.search(begin) with begin a number: tree[begin]
search1(begin) ==
    IF top_node = None THEN Fail("AttributeError")
    ELSE Result(search_point(nodes, top_node, begin))

\* IntervalTree.search(begin, end, strict) with end a number: tree[begin:end]
search(begin, end, strict) ==
    IF top_node = None THEN Fail("AttributeError")
    ELSE LET Filter(result) ==
                 IF strict
                 THEN {iv \in result : iv.begin >= begin /\ iv.end <= end}
                 ELSE result
         IN Result(Filter(search_point(nodes, top_node, begin)
                          \cup search_overlap(nodes, top_node,
                                 {bound \in DOMAIN boundary_table :
                                      begin < bound /\ bound < end})))

\* IntervalTree.begin / IntervalTree.end: min and max of the keys of the
\* boundary table; of an empty table they raise ValueError.  The value
\* returned is held in ret.
Least(S) == CHOOSE x \in S : \A y \in S : x <= y
Greatest(S) == CHOOSE x \in S : \A y \in S : y <= x
tree_begin ==
    IF DOMAIN boundary_table = {} THEN Fail("ValueError")
    ELSE Result(Least(DOMAIN boundary_table))
tree_end ==
    IF DOMAIN boundary_table = {} THEN Fail("ValueError")
    ELSE Result(Greatest(DOMAIN boundary_table))

\* Node.verify: the asserts, in order; TRUE when none fails.  The balance
\* it refreshes is the stored one when the second assert passes.
RECURSIVE Node_verify(_, _, _)
Node_verify(h, n, parents) ==
    /\ h[n].balance < 2 /\ h[n].balance > 0 - 2
    /\ h[n].balance = BalanceOf(h, n)
    /\ h[n].s_center # {}
    /\ \A iv \in h[n].s_center :
          /\ iv.begin < iv.end
          /\ contains_point(iv, h[n].x_center)
          /\ \A parent \in parents : ~contains_point(iv, parent)
    /\ (h[n].left_node # None =>
            /\ h[h[n].left_node].x_center < h[n].x_center
            /\ Node_verify(h, h[n].left_node, parents \cup {h[n].x_center}))
    /\ (h[n].right_node # None =>
            /\ h[h[n].right_node].x_center > h[n].x_center
            /\ Node_verify(h, h[n].right_node, parents \cup {h[n].x_center}))

\* The table verify() builds from the members: bound_check.
bound_check == AddAllBoundaries(EmptyTable, Iter(all_intervals, <<100, 10, 1>>))

\* IntervalTree.verify: the exception it raises, "None" when it passes.
verify ==
    IF all_intervals # {}
    THEN IF top_node = None THEN "AttributeError"
         ELSE IF /\ all_children(nodes, top_node) = all_intervals
                 /\ DOMAIN boundary_table = DOMAIN bound_check
                 /\ \A key \in DOMAIN boundary_table :
                       bound_check[key] = boundary_table[key]
                 /\ Node_verify(nodes, top_node, {})
         THEN NoExc
         ELSE "AssertionError"
    ELSE IF DOMAIN boundary_table = {} /\ top_node = None THEN NoExc
    ELSE "AssertionError"

\* Node.contains_point: True, or the None of a missing branch ("x and y"
\* hands back x when x is false).
RECURSIVE Node_contains_point(_, _, _)
Node_contains_point(h, n, p) ==
    IF \E iv \in h[n].s_center : contains_point(iv, p) THEN "True"
    ELSE LET Branch(branch) ==
                 IF branch = None THEN "None" ELSE Node_contains_point(h, branch, p)
         IN Branch(NodeGet(h, n, p > h[n].x_center))

\* IntervalTree.is_empty
is_empty == Cardinality(all_intervals) = 0

\* IntervalTree.overlaps_point; without a root the call on top_node fails.
IntervalTree_overlaps_point(p) ==
    IF is_empty THEN "False"
    ELSE IF top_node = None THEN "AttributeError"
    ELSE Node_contains_point(nodes, top_node, p)

\* IntervalTree.overlaps_range
IntervalTree_overlaps_range(begin, end) ==
    IF is_empty THEN "False"
    ELSE IF IntervalTree_overlaps_point(begin) = "AttributeError" THEN "AttributeError"
    ELSE IF IntervalTree_overlaps_point(begin) = "True" THEN "True"
    ELSE IF \E bound \in DOMAIN boundary_table :
               /\ begin <= bound /\ bound < end
               /\ IntervalTree_overlaps_point(bound) = "True"
    THEN "True"
    ELSE "False"

\* IntervalTree.overlaps(begin, end) and overlaps(begin), the argument
\* given as a Range or a Point.
IntervalTree_overlaps(a) ==
    IF a.point THEN IntervalTree_overlaps_point(a.begin)
    ELSE IntervalTree_overlaps_range(a.begin, a.end)

\* Interval.contains_interval
contains_interval(iv, other) == iv.begin <= other.begin /\ iv.end >= other.end

\* len(iv), the key find_nested sorts by: Interval defines no __len__, so
\* it is the number of fields of the namedtuple.
Interval__len__(iv) == Cardinality(DOMAIN iv)

\* sorted(seq, key=len, reverse=True): the sort is stable, also when
\* reversed, so each element goes behind those whose key is not smaller.
RECURSIVE SortedByLenReversed(_)
SortedByLenReversed(seq) ==
    IF seq = <<>> THEN <<>>
    ELSE LET Insert(done, x) ==
                 LET Behind(k) == Interval__len__(done[k]) >= Interval__len__(x)
                     n == Cardinality({k \in 1..Len(done) :
                                          \A j \in 1..k : Behind(j)})
                 IN SubSeq(done, 1, n) \o <<x>> \o SubSeq(done, n + 1, Len(done))
         IN Insert(SortedByLenReversed(SubSeq(seq, 1, Len(seq) - 1)), seq[Len(seq)])

\* IntervalTree.find_nested: the dictionary it returns, o being the order
\* in which all_intervals is iterated.
find_nested(o) ==
    LET Pairs(long_ivs) ==
            LET Children(i) ==
                    {long_ivs[k] : k \in {j \in (i + 1)..Len(long_ivs) :
                                             contains_interval(long_ivs[i], long_ivs[j])}}
                Parents == {i \in 1..Len(long_ivs) : Children(i) # {}}
            IN [parent \in {long_ivs[i] : i \in Parents} |->
                   UNION {Children(i) : i \in {j \in Parents : long_ivs[j] = parent}}]
    IN Pairs(SortedByLenReversed(Iter(all_intervals, o)))

\* The points and the ranges queried: every coordinate in use, and the
\* integers next to one.
Points ==
    LET U == Universe \cup DeepUniverse \cup BuildUniverse
        Ends == {iv.begin : iv \in U} \cup {iv.end : iv \in U}
    IN {c - 1 : c \in Ends} \cup Ends \cup {c + 1 : c \in Ends}
Ranges == {r \in [begin : Points, end : Points] : r.begin < r.end}

\* ------------------------------------------- methods that call methods
\* A tree object as a value: what a method that calls add() or remove()
\* several times works on between the calls.
Tree(h, top, members, bt) ==
    [nodes |-> h, top_node |-> top, all_intervals |-> members, boundary_table |-> bt]
Self == Tree(nodes, top_node, all_intervals, boundary_table)

\* What a call on a tree value hands back: the tree it leaves and the
\* exception raised.
Outcome(t, exc) == [t |-> t, exc |-> exc]

\* self.add(interval) on a tree value
IntervalTree_add(t, interval, o) ==
    IF interval \in t.all_intervals THEN Outcome(t, NoExc)
    ELSE LET Added(r) ==
                 IF r.exc # NoExc
                 THEN Outcome(Tree(Compact(r.h, t.top_node), t.top_node,
                                t.all_intervals \cup {interval}, t.boundary_table),
                           r.exc)
                 ELSE Outcome(Tree(Compact(r.h, r.ret), Root(r.ret),
                                t.all_intervals \cup {interval},
                                add_boundaries(t.boundary_table, interval)),
                           NoExc)
         IN Added(IF t.top_node = None THEN from_interval(t.nodes, interval)
                  ELSE Node_add(t.nodes, t.top_node, interval, o))

\* self.remove(interval) on a tree value
IntervalTree_remove(t, interval, o) ==
    IF interval \notin t.all_intervals THEN Outcome(t, "ValueError")
    ELSE IF t.top_node = None THEN Outcome(t, "AttributeError")
    ELSE LET Removed(r, b) ==
                 IF r.exc # NoExc
                 THEN Outcome(Tree(Compact(r.h, t.top_node), t.top_node,
                                t.all_intervals, t.boundary_table),
                           r.exc)
                 ELSE Outcome(Tree(Compact(r.h, r.ret), Root(r.ret),
                                t.all_intervals \ {interval}, b.bt),
                           b.exc)
         IN Removed(Node_remove(t.nodes, t.top_node, interval, o),
                    remove_boundaries(t.boundary_table, interval))

\* The tree a method leaves becomes the state.
Becomes(r, op, arg) ==
    /\ nodes' = r.t.nodes
    /\ top_node' = r.t.top_node
    /\ all_intervals' = r.t.all_intervals
    /\ boundary_table' = r.t.boundary_table
    /\ last' = Call(op, arg, r.exc)

\* tree.add(interval); tree.remove(interval)
add_remove(interval, o1, o2) ==
    /\ ~Halted
    /\ LET Then(a) ==
               IF a.exc # NoExc THEN Becomes(a, "add_remove", {interval})
               ELSE Becomes(IntervalTree_remove(a.t, interval, o2),
                            "add_remove", {interval})
       IN Then(IntervalTree_add(Self, interval, o1))

\* self.search(begin, end, strict) on a tree value; point says that end
\* is None.
IntervalTree_search(t, begin, end, point, strict) ==
    IF t.top_node = None THEN Fail("AttributeError")
    ELSE IF point THEN Result(search_point(t.nodes, t.top_node, begin))
    ELSE LET Filter(result) ==
                 IF strict
                 THEN {iv \in result : iv.begin >= begin /\ iv.end <= end}
                 ELSE result
         IN Result(Filter(search_point(t.nodes, t.top_node, begin)
                          \cup search_overlap(t.nodes, t.top_node,
                                 {bound \in DOMAIN t.boundary_table :
                                      begin < bound /\ bound < end})))

\* for iv in hitlist: self.remove(iv)
RECURSIVE remove_each(_, _, _)
remove_each(t, hitlist, o) ==
    IF hitlist = <<>> THEN Outcome(t, NoExc)
    ELSE LET Removed(r) ==
                 IF r.exc # NoExc THEN r
                 ELSE remove_each(r.t, Tail(hitlist), o)
         IN Removed(IntervalTree_remove(t, Head(hitlist), o))

\* The argument of remove_overlap and remove_envelop as last records it:
\* a range, or (point = TRUE) the single number begin.
Range(begin, end) == [begin |-> begin, end |-> end, point |-> FALSE]
Point(p) == [begin |-> p, end |-> p, point |-> TRUE]

\* IntervalTree.remove_overlap(begin, end) and remove_overlap(begin)
remove_overlap(a, o) ==
    /\ ~Halted
    /\ LET Found(hitlist) ==
               IF hitlist.exc # NoExc
               THEN Becomes(Outcome(Self, hitlist.exc), "remove_overlap", {a})
               ELSE Becomes(remove_each(Self, Iter(hitlist.ret, o), o),
                            "remove_overlap", {a})
       IN Found(IntervalTree_search(Self, a.begin, a.end, a.point, FALSE))

\* IntervalTree.remove_envelop(begin, end)
remove_envelop(a, o) ==
    /\ ~Halted
    /\ LET Found(hitlist) ==
               IF hitlist.exc # NoExc
               THEN Becomes(Outcome(Self, hitlist.exc), "remove_envelop", {a})
               ELSE Becomes(remove_each(Self, Iter(hitlist.ret, o), o),
                            "remove_envelop", {a})
       IN Found(IntervalTree_search(Self, a.begin, a.end, FALSE, TRUE))

\* sorted(self.boundary_table): the keys, ascending
RECURSIVE SortedKeys(_)
SortedKeys(keys) ==
    IF keys = {} THEN <<>>
    ELSE <<Least(keys)>> \o SortedKeys(keys \ {Least(keys)})

\* for iv in self[lbound]: the intervals Interval(lbound, ubound, iv.data)
\* that the inner loop of split_overlaps hands to temp, in order
Cut(ivs, lbound, ubound) ==
    [k \in 1..Len(ivs) |-> Interval(lbound, ubound, ivs[k].data)]

\* The loops of split_overlaps from bounds[i] on, temp being the tree t:
\* temp[lbound:ubound] = iv.data is temp.add(Interval(lbound, ubound, iv.data)).
RECURSIVE split_fill(_, _, _, _)
split_fill(t, pieces, bounds, o) ==
    IF pieces # <<>>
    THEN LET Added(r) ==
                 IF r.exc # NoExc THEN r
                 ELSE split_fill(r.t, Tail(pieces), bounds, o)
         IN Added(IntervalTree_add(t, Head(pieces), o))
    ELSE IF Len(bounds) < 2 THEN Outcome(t, NoExc)
    ELSE LET Found(hits) ==
                 IF hits.exc # NoExc THEN Outcome(t, hits.exc)
                 ELSE split_fill(t, Cut(Iter(hits.ret, o), bounds[1], bounds[2]),
                                 Tail(bounds), o)
         IN Found(IntervalTree_search(Self, bounds[1], bounds[2], TRUE, FALSE))

\* IntervalTree.split_overlaps
split_overlaps(o) ==
    /\ ~Halted
    /\ IF Cardinality(all_intervals) = 0
       THEN Becomes(Outcome(Self, NoExc), "split_overlaps", {})
       ELSE IF Cardinality(DOMAIN boundary_table) = 2
       THEN Becomes(Outcome(Self, NoExc), "split_overlaps", {})
       ELSE LET Split(temp) ==
                    IF temp.exc # NoExc
                    THEN Becomes(Outcome(Self, temp.exc), "split_overlaps", {})
                    ELSE Becomes(Outcome(Tree(temp.t.nodes, temp.t.top_node,
                                              temp.t.all_intervals, boundary_table),
                                         NoExc),
                                 "split_overlaps", {})
            IN Split(split_fill(Tree(<<>>, None, {}, EmptyTable), <<>>,
                                SortedKeys(DOMAIN boundary_table), o))

\* IntervalTree(intervals) as a tree value
IntervalTree_init(intervals, o) ==
    LET Built(f) ==
            IF f.exc # NoExc THEN Outcome(Tree(<<>>, None, {}, EmptyTable), f.exc)
            ELSE Outcome(Tree(Compact(f.h, f.ret), Root(f.ret), intervals,
                              AddAllBoundaries(EmptyTable, Iter(intervals, o))),
                         NoExc)
    IN Built(from_intervals(<<>>, Iter(intervals, o), o, 1))

\* tree = tree.copy(): the tree is built anew, at once, from its members.
\* When the constructor raises, the assignment does not happen.
copy(o) ==
    /\ ~Halted
    /\ LET Copied(c) ==
               IF c.exc # NoExc THEN Becomes(Outcome(Self, c.exc), "copy", all_intervals)
               ELSE Becomes(c, "copy", all_intervals)
       IN Copied(IntervalTree_init(all_intervals, o))

\* The arguments of remove_overlap and remove_envelop.
Arguments(U) ==
    LET Ends == {iv.begin : iv \in U} \cup {iv.end : iv \in U}
    IN {Range(x[1], x[2]) : x \in {y \in Ends \X Ends : y[1] < y[2]}}
       \cup {Point(c) : c \in Ends}

\* Every public mutation, over Universe.
NextOps ==
    \/ Next
    \/ \E a \in Arguments(Universe), o \in Orders : remove_overlap(a, o)
    \/ \E a \in {x \in Arguments(Universe) : ~x.point}, o \in Orders :
          remove_envelop(a, o)
    \/ \E interval \in Universe, o1 \in Orders, o2 \in Orders :
          Room(interval, MaxSize) /\ add_remove(interval, o1, o2)

SpecOps == Init /\ [][NextOps]_vars

\* Runs with split_overlaps, over Universe.  split_overlaps leaves the
\* boundary table as it was, so the counts are capped as well as the
\* members: no add is attempted once the tree holds MaxSplitSize intervals
\* or the table counts a coordinate more than MaxSplitSize times.
SplitRoom(interval) ==
    /\ Room(interval, MaxSplitSize)
    /\ \A k \in DOMAIN boundary_table : boundary_table[k] <= MaxSplitSize

NextSplit ==
    \/ \E interval \in Universe, o \in Orders :
          SplitRoom(interval) /\ add(interval, o)
    \/ \E interval \in Universe, o \in Orders : remove(interval, o)
    \/ \E o \in Orders : split_overlaps(o)

SpecSplit == Init /\ [][NextSplit]_vars

\* Round trips over DeepUniverse, on trees of at most MaxTripSize intervals.
InitTrip ==
    \E S \in BulkInputs(DeepUniverse, MaxTripBulk), o \in Orders : Construct(S, o)

NextTrip ==
    \/ \E interval \in DeepUniverse, o \in Orders :
          Room(interval, MaxTripSize) /\ add(interval, o)
    \/ \E interval \in DeepUniverse, o \in Orders : remove(interval, o)
    \/ \E interval \in DeepUniverse, o1 \in Orders, o2 \in Orders :
          Room(interval, MaxTripSize) /\ add_remove(interval, o1, o2)

SpecTrip == InitTrip /\ [][NextTrip]_vars

\* ------------------------------ runs that only build, over BuildUniverse
InitBuild ==
    \E S \in BulkInputs(BuildUniverse, MaxDeepBulk), o \in Orders : Construct(S, o)

\* The tree was built by add() alone, starting from IntervalTree().
Grown == last.op = "add" \/ (last.op = "init" /\ last.arg = {})

\* A tree is built at once by the constructor, or grown by add() from the
\* empty tree, the intervals coming in any order; either can then be
\* built anew from its members.
NextBuild ==
    \/ \E interval \in BuildUniverse, o \in Orders :
          Grown /\ Room(interval, MaxDeepSize) /\ add(interval, o)
    \/ \E o \in Orders :
          (Grown \/ last.op = "init") /\ copy(o)

SpecBuild == InitBuild /\ [][NextBuild]_vars

\* ----------------------------------------------------------------- chop
\* for iv in insertions: self.add(iv)
RECURSIVE add_each(_, _, _)
add_each(t, insertions, o) ==
    IF insertions = <<>> THEN Outcome(t, NoExc)
    ELSE LET Added(r) ==
                 IF r.exc # NoExc THEN r
                 ELSE add_each(r.t, Tail(insertions), o)
         IN Added(IntervalTree_add(t, Head(insertions), o))

\* What chop(begin, end) keeps of an interval that overlaps the range: the
\* lower portion [iv.begin, begin) of one that crosses the lower edge and
\* the upper portion [end, iv.end) of one that crosses the upper edge, each
\* with the data of the original.
chop_portions(iv, begin, end) ==
    (IF iv.begin < begin THEN {Interval(iv.begin, begin, iv.data)} ELSE {})
        \cup (IF iv.end > end THEN {Interval(end, iv.end, iv.data)} ELSE {})

\* IntervalTree.chop(begin, end), without datafunc: every member that
\* overlaps [begin, end) is removed and the portions kept are added.
chop(a, o) ==
    /\ ~Halted
    /\ LET Chopped(r, insertions) ==
               IF r.exc # NoExc THEN Becomes(r, "chop", {a})
               ELSE Becomes(add_each(r.t, Iter(insertions, o), o), "chop", {a})
           Hit(hits) ==
               Chopped(remove_each(Self, Iter(hits, o), o),
                       UNION {chop_portions(iv, a.begin, a.end) : iv \in hits})
       IN Hit({iv \in all_intervals : overlaps_range(iv, a.begin, a.end)})

\* The ranges chopped.
ChopRanges == {x \in Arguments(DeepUniverse) : ~x.point}

\* Trees over DeepUniverse of at most MaxTripSize intervals are built and
\* grown, and chopped.
NextChop ==
    \/ \E interval \in DeepUniverse, o \in Orders :
          Room(interval, MaxTripSize) /\ add(interval, o)
    \/ \E a \in ChopRanges, o \in Orders : chop(a, o)

SpecChop == InitTrip /\ [][NextChop]_vars

\* ------------------------------------ runs that call Interval's methods
\* The methods are called on Interval(b, e) for all b and e in Coords, null
\* intervals among them, with these numbers.
Numbers == (0 - 1)..(MaxCoord + 1)

\* Interval.overlaps(other), end being None: other is an Interval, or
\* other.begin raises and other is taken as a point.
Interval_overlaps(iv, other) ==
    IF other.point THEN contains_point(iv, other.begin)
    ELSE overlaps_range(iv, other.begin, other.end)

\* Interval.distance_to(other): the try block works when other is an
\* Interval, the except block when it is a number.
distance_to(iv, other) ==
    IF Interval_overlaps(iv, other) THEN 0
    ELSE IF ~other.point
    THEN IF iv.begin < other.begin THEN other.begin - iv.end
         ELSE iv.begin - other.end
    ELSE IF iv.end < other.begin THEN other.begin - iv.end
         ELSE iv.begin - other.begin

\* A call of a method of iv that returned ret: last records the call with
\* the value returned; no tree is touched.
Returned(op, iv, arg, ret) ==
    /\ last' = Call(op, {[self |-> iv, other |-> arg, ret |-> ret]}, NoExc)
    /\ UNCHANGED <<nodes, top_node, all_intervals, boundary_table>>

\* iv.overlaps(begin, end)
call_overlaps(iv, begin, end) ==
    Returned("overlaps", iv, Range(begin, end), overlaps_range(iv, begin, end))

\* iv.distance_to(other)
call_distance_to(iv, other) ==
    Returned("distance_to", iv, other, distance_to(iv, other))

InitInterval == Construct({}, <<100, 10, 1>>)

NextInterval ==
    \/ \E b \in Coords, e \in Coords, begin \in Numbers, end \in Numbers :
          call_overlaps(Interval(b, e, 0), begin, end)
    \/ \E b \in Coords, e \in Coords, begin \in Coords, end \in Coords :
          call_distance_to(Interval(b, e, 0), Range(begin, end))
    \/ \E b \in Coords, e \in Coords, p \in Numbers :
          call_distance_to(Interval(b, e, 0), Point(p))

SpecInterval == InitInterval /\ [][NextInterval]_vars

C4_AVLBalanced ==
    LET RECURSIVE Depth(_)
        Depth(n) ==
            IF n = None THEN 0
            ELSE LET Deeper(l, r) == IF l < r THEN r ELSE l
                 IN 1 + Deeper(Depth(nodes[n].left_node), Depth(nodes[n].right_node))
        Within(d) == d <= 1 /\ d >= 0 - 1
    IN ~Halted =>
           \A n \in 1..Len(nodes) :
               Within(Depth(nodes[n].right_node) - Depth(nodes[n].left_node))

C6_RemoveMember ==
    [][\A iv \in last'.arg :
          (last'.op = "remove" /\ iv \in all_intervals)
              => /\ last'.exc = NoExc
                 /\ all_intervals' = all_intervals \ {iv}]_vars

\* C7: remove(iv) of an interval that is not a member (on an empty tree
\* too, and when a member has the same range but other data) raises
\* ValueError and leaves all_intervals, the boundary table and the nodes
\* unchanged.
C7_RemoveAbsent ==
    [][\A iv \in last'.arg :
          (last'.op = "remove" /\ iv \notin all_intervals)
              => /\ last'.exc = "ValueError"
                 /\ UNCHANGED <<nodes, top_node, all_intervals, boundary_table>>]_vars

\* The last call was remove(iv) of a non-member whose range, with other
\* data, is the range of a member.
C7_Witness ==
    /\ last.op = "remove"
    /\ last.exc = "ValueError"
    /\ \E iv \in last.arg :
          /\ iv \notin all_intervals
          /\ \E m \in all_intervals :
                m.begin = iv.begin /\ m.end = iv.end /\ m.data # iv.data

\* C8: discard(iv) never raises; for a non-member it leaves all_intervals,
\* the boundary table and the nodes unchanged; for a member it has the
\* effect of remove(iv).
C8_Discard ==
    [][\A iv \in last'.arg :
          last'.op = "discard"
              => /\ last'.exc = NoExc
                 /\ iv \notin all_intervals => UNCHANGED <<nodes, top_node, all_intervals, boundary_table>>
                 /\ iv \in all_intervals =>
                        \E o \in Orders :
                            LET Same(r, b) ==
                                    /\ r.exc = NoExc
                                    /\ b.exc = NoExc
                                    /\ nodes' = Compact(r.h, r.ret)
                                    /\ top_node' = Root(r.ret)
                                    /\ all_intervals' = all_intervals \ {iv}
                                    /\ boundary_table' = b.bt
                            IN Same(Node_remove(nodes, top_node, iv, o),
                                    remove_boundaries(boundary_table, iv))]_vars

\* C9: add, addi and tree[b:e] = v with a null interval (begin >= end)
\* raise ValueError and leave the tree unchanged: no member added, no node
\* created, the boundary table untouched.
C9_NullAddRejected ==
    [][\A iv \in last'.arg :
          (last'.op \in {"add", "addi", "setitem"} /\ is_null(iv))
              => /\ last'.exc = "ValueError"
                 /\ UNCHANGED <<nodes, top_node, all_intervals, boundary_table>>]_vars

\* C10: IntervalTree(iterable) raises ValueError whenever the iterable
\* contains a null interval, even next to valid ones, and no tree is built.
C10_NullInitRejected ==
    (last.op = "init" /\ \E iv \in last.arg : is_null(iv))
        => /\ last.exc = "ValueError"
           /\ top_node = None
           /\ all_intervals = {}

\* C11: failure atomicity.  Whenever a public mutation raises, all_intervals,
\* the boundary table and every node (its s_center, its children) are
\* exactly as they were before the call.
C11_FailureAtomic ==
    [][last'.exc # NoExc
          => UNCHANGED <<nodes, top_node, all_intervals, boundary_table>>]_vars

\* C12: idempotent add.  Adding an interval that is already a member leaves
\* all_intervals, the boundary table, the nodes and the result of every
\* point and range query unchanged.
C12_IdempotentAdd ==
    [][\A iv \in last'.arg :
          (last'.op = "add" /\ iv \in all_intervals)
              => /\ last'.exc = NoExc
                 /\ UNCHANGED <<nodes, top_node, all_intervals, boundary_table>>
                 /\ \A p \in Points : search1(p)' = search1(p)
                 /\ \A r \in Ranges :
                        search(r.begin, r.end, FALSE)' = search(r.begin, r.end, FALSE)]_vars

\* The last call was add(iv) of an interval that was a member already.
C12_Witness ==
    /\ last.op = "add"
    /\ last.exc = NoExc
    /\ last.arg # {}
    /\ last.arg \subseteq last.pre

\* C13: add-remove round trip.  For every reachable tree and every valid
\* interval iv that is not a member, add(iv) followed by remove(iv) raises
\* nothing and gives a tree with the same all_intervals, the same boundary
\* table and the same result for every point and range query.
C13_AddRemoveRoundTrip ==
    [][\A iv \in last'.arg :
          (last'.op = "add_remove" /\ ~is_null(iv) /\ iv \notin all_intervals)
              => /\ last'.exc = NoExc
                 /\ all_intervals' = all_intervals
                 /\ boundary_table' = boundary_table
                 /\ \A p \in Points : search1(p)' = search1(p)
                 /\ \A r \in Ranges :
                        search(r.begin, r.end, FALSE)' = search(r.begin, r.end, FALSE)]_vars

C15_RemoveOverlap ==
    [][\A a \in last'.arg :
          last'.op = "remove_overlap"
              => LET Hit(iv) == IF a.point THEN contains_point(iv, a.begin)
                                ELSE overlaps_range(iv, a.begin, a.end)
                 IN /\ last'.exc = NoExc
                    /\ \A iv \in all_intervals' : ~Hit(iv)
                    /\ \A iv \in all_intervals : ~Hit(iv) => iv \in all_intervals'
                    /\ verify' = NoExc]_vars

\* C16: on an empty tree, freshly constructed or emptied by removing every
\* member, tree[p] and tree[b:e] return the empty set and begin() and end()
\* return 0, none of them raising.
C16_EmptyTreeQueries ==
    (~Halted /\ all_intervals = {}) =>
        /\ \A p \in Points : search1(p) = Result({})
        /\ \A r \in Ranges : search(r.begin, r.end, FALSE) = Result({})
        /\ tree_begin = Result(0)
        /\ tree_end = Result(0)

\* C17: tree.overlaps(p) is True iff some member contains p;
\* tree.overlaps(begin, end) is True iff some member shares a point with
\* [begin, end); and overlaps(begin, end) is not True for any null range
\* begin >= end, even when a member contains begin.
C17_Overlaps ==
    ~Halted =>
        /\ \A p \in Points :
              (IntervalTree_overlaps(Point(p)) = "True")
                  <=> (\E iv \in all_intervals : iv.begin <= p /\ p < iv.end)
        /\ \A r \in Ranges :
              (IntervalTree_overlaps(Range(r.begin, r.end)) = "True")
                  <=> (\E iv \in all_intervals : iv.begin < r.end /\ iv.end > r.begin)
        /\ \A b \in Points, e \in Points :
              b >= e => IntervalTree_overlaps(Range(b, e)) # "True"

\* C18: after split_overlaps() no member strictly contains (begin < k < end)
\* a boundary coordinate k of the members before the split, any two members
\* that overlap have the same begin and the same end, and the points
\* covered by the members are those covered before.
C18_SplitOverlaps ==
    [][last'.op = "split_overlaps"
          => LET Ends == {iv.begin : iv \in all_intervals}
                             \cup {iv.end : iv \in all_intervals}
                 Covered(S, p) == \E iv \in S : contains_point(iv, p)
             IN /\ last'.exc = NoExc
                /\ \A iv \in all_intervals', k \in Ends :
                      ~(iv.begin < k /\ k < iv.end)
                /\ \A a \in all_intervals', b \in all_intervals' :
                      overlaps(a, b) => (a.begin = b.begin /\ a.end = b.end)
                /\ \A p \in Points :
                      Covered(all_intervals', p) <=> Covered(all_intervals, p)]_vars

\* C19: after split_overlaps() the tree passes verify(): the boundary table
\* counts, for each coordinate, the endpoints of the members as they are
\* after the split; and every member can then be removed, one at a time
\* with remove(), without any error, until the tree is empty.
C19_SplitKeepsTable ==
    [][last'.op = "split_overlaps"
          => /\ last'.exc = NoExc
             /\ verify' = NoExc
             /\ boundary_table' = bound_check'
             /\ \A o \in Orders :
                   LET Emptied(r) == r.exc = NoExc /\ r.t.all_intervals = {}
                   IN Emptied(remove_each(Self, Iter(all_intervals, o), o))']_vars

\* C20: find_nested() reports every nesting: for all members P and C with
\* different ranges, P.begin <= C.begin and C.end <= P.end, C is in
\* result[P]; every member of result[P] is contained in P; and the result
\* does not depend on the order in which the membership set is iterated.
C20_FindNested ==
    ~Halted =>
        \A o \in Orders :
            LET Complete(result) ==
                    /\ \A P \in all_intervals, C \in all_intervals :
                          (/\ (P.begin # C.begin \/ P.end # C.end)
                           /\ P.begin <= C.begin
                           /\ C.end <= P.end)
                              => (P \in DOMAIN result /\ C \in result[P])
                    /\ \A P \in DOMAIN result : \A C \in result[P] :
                          P.begin <= C.begin /\ C.end <= P.end
                    /\ \A o2 \in Orders : find_nested(o2) = result
            IN Complete(find_nested(o))

\* C21: Interval.overlaps(begin, end) returns True iff the half-open ranges
\* [begin, end) and [self.begin, self.end) share at least one point, and
\* returns False for every null query range (begin >= end), also when its
\* begin lies inside the interval.
C21_IntervalOverlaps ==
    \A c \in last.arg :
        last.op = "overlaps"
            => /\ c.ret <=> \E p \in Numbers :
                               /\ contains_point(c.self, p)
                               /\ c.other.begin <= p /\ p < c.other.end
               /\ c.other.begin >= c.other.end => ~c.ret

\* C22: Interval.distance_to(other), other being an interval or a point,
\* returns 0 when other overlaps or touches the interval (a point equal to
\* the interval's end included) and otherwise the positive size of the gap;
\* the result is never negative.
C22_DistanceTo ==
    \A c \in last.arg :
        (/\ last.op = "distance_to"
         /\ ~is_null(c.self)
         /\ (c.other.point \/ c.other.begin < c.other.end))
            => LET last_point == IF c.other.point THEN c.other.begin
                                 ELSE c.other.end
                   Gap == IF last_point < c.self.begin
                          THEN c.self.begin - last_point
                          ELSE c.other.begin - c.self.end
               IN /\ c.ret >= 0
                  /\ c.ret = IF Gap > 0 THEN Gap ELSE 0

\* C23: chop(begin, end) removes every member lying inside [begin, end) and
\* replaces every member crossing an edge by its portions outside the range
\* ([iv.begin, begin) and/or [end, iv.end)); afterwards no member overlaps
\* [begin, end) and every point outside [begin, end) is covered by as many
\* members as before.
C23_Chop ==
    [][\A a \in last'.arg :
          last'.op = "chop"
              => LET Meets(iv) == iv.begin < a.end /\ a.begin < iv.end
                     Outside(iv) ==
                         {x \in {Interval(iv.begin, a.begin, iv.data),
                                 Interval(a.end, iv.end, iv.data)} : x.begin < x.end}
                     Cover(S, p) == Cardinality({iv \in S : contains_point(iv, p)})
                 IN /\ last'.exc = NoExc
                    /\ all_intervals' =
                           {iv \in all_intervals : ~Meets(iv)}
                               \cup UNION {Outside(iv) : iv \in {x \in all_intervals : Meets(x)}}
                    /\ \A iv \in all_intervals' : ~Meets(iv)
                    /\ \A p \in Points :
                          (p < a.begin \/ p >= a.end)
                              => Cover(all_intervals', p) = Cover(all_intervals, p)]_vars

\* C24: after every add, remove, discard and bulk construction that
\* completes, every node reachable from top_node has a non-empty s_center
\* and every interval in it contains the node's x_center
\* (begin <= x_center < end).
C24_CenterHit ==
    last.exc = NoExc
        => \A n \in DOMAIN nodes :
              /\ nodes[n].s_center # {}
              /\ \A iv \in nodes[n].s_center :
                    iv.begin <= nodes[n].x_center /\ nodes[n].x_center < iv.end

C27_Balance ==
    last.exc = NoExc
        => \A n \in DOMAIN nodes :
              /\ nodes[n].balance = BalanceOf(nodes, n)
              /\ nodes[n].balance < 2
              /\ nodes[n].balance > 0 - 2

C29_BoundaryTable ==
    last.exc = NoExc
        => /\ DOMAIN boundary_table =
                  {iv.begin : iv \in all_intervals} \cup {iv.end : iv \in all_intervals}
           /\ \A k \in DOMAIN boundary_table :
                 boundary_table[k] =
                     Cardinality({iv \in all_intervals : iv.begin = k})
                         + Cardinality({iv \in all_intervals : iv.end = k})
           /\ all_intervals # {}
                 => /\ tree_begin = Result(Least({iv.begin : iv \in all_intervals}))
                    /\ tree_end = Result(Greatest({iv.end : iv \in all_intervals}))

====
